---- MODULE Spec2Model ----
(***************************************************************************)
(* Model of minecraft_coords_manager.py: the Dataset (self.data), the file *)
(* written by save_data, the profile Listbox, the coordinates Treeview and *)
(* the handlers of CoordManagerApp that read and change them.              *)
(*                                                                         *)
(* Text (profile names, coordinate names, seeds, number fields, Treeview   *)
(* item ids) is a sequence of one-character strings, so that str.strip,    *)
(* str.isdigit, int(), float() and str() are computed character by         *)
(* character.  A tuple returned by curselection()/selection() is a         *)
(* sequence of length 0 or 1.                                              *)
(***************************************************************************)
EXTENDS Integers, Sequences, FiniteSets, TLC

VARIABLES
    data,       \* self.data: profile name -> [seed, coords]
    file,       \* content of cords-data.json
    listbox,    \* items of self.profile_listbox, in display order
    cursel,     \* self.profile_listbox.curselection(): <<>> or <<index>>
    tree,       \* rows of self.coords_tree: [iid, values]
    treesel,    \* self.coords_tree.selection(): <<>> or <<iid>>
    op,         \* the handler that ran last, its inputs and how it ended
    saved,      \* the documents the last handler passed to save_data
    text,       \* number-parse specification: the text of an entry field
    parsed      \* number-parse specification: what the parse made of it

vars == <<data, file, listbox, cursel, tree, treesel, op, saved, text, parsed>>

(***************************************************************************)
(* Bounds.                                                                 *)
(***************************************************************************)
MaxCoords == 2      \* add_coord is offered while the Dataset holds fewer coordinates
MaxLen == 3         \* longest entry text given to the number parse

(***************************************************************************)
(* Text helpers.                                                           *)
(***************************************************************************)
Digits == {"0", "1", "2", "3", "4", "5", "6", "7", "8", "9"}

DigitVal(c) ==
    CASE c = "0" -> 0 [] c = "1" -> 1 [] c = "2" -> 2 [] c = "3" -> 3
      [] c = "4" -> 4 [] c = "5" -> 5 [] c = "6" -> 6 [] c = "7" -> 7
      [] c = "8" -> 8 [] c = "9" -> 9

DigitChar(n) ==
    CASE n = 0 -> "0" [] n = 1 -> "1" [] n = 2 -> "2" [] n = 3 -> "3"
      [] n = 4 -> "4" [] n = 5 -> "5" [] n = 6 -> "6" [] n = 7 -> "7"
      [] n = 8 -> "8" [] n = 9 -> "9"

\* str.strip(): whitespace removed from both ends
RECURSIVE LStrip(_)
LStrip(s) == IF s # <<>> /\ Head(s) = " " THEN LStrip(Tail(s)) ELSE s

RECURSIVE RStrip(_)
RStrip(s) ==
    IF s # <<>> /\ s[Len(s)] = " " THEN RStrip(SubSeq(s, 1, Len(s) - 1)) ELSE s

Strip(s) == RStrip(LStrip(s))

\* str.isdigit(): non-empty and every character a digit
IsDigit(s) == s # <<>> /\ \A i \in 1..Len(s) : s[i] \in Digits

\* value of a string of decimal digits
RECURSIVE DigitsVal(_)
DigitsVal(s) ==
    IF s = <<>> THEN 0
    ELSE 10 * DigitsVal(SubSeq(s, 1, Len(s) - 1)) + DigitVal(s[Len(s)])

\* str(idx) of a natural number, and int() of such a string
RECURSIVE NatToStr(_)
NatToStr(n) ==
    IF n < 10 THEN <<DigitChar(n)>> ELSE NatToStr(n \div 10) \o <<DigitChar(n % 10)>>

StrToNat(s) == DigitsVal(s)

LowerChar(c) ==
    CASE c = "N" -> "n" [] c = "A" -> "a" [] c = "I" -> "i" [] c = "F" -> "f"
      [] c = "T" -> "t" [] c = "Y" -> "y" [] c = "E" -> "e" [] c = "Q" -> "q"
      [] c = "P" -> "p" [] c = "H" -> "h" [] c = "B" -> "b" [] OTHER -> c

\* str.lower()
Lower(s) == [i \in 1..Len(s) |-> LowerChar(s[i])]

\* position of the first character of s that is in S, 0 when there is none
FirstIdx(s, S) ==
    IF \E i \in 1..Len(s) : s[i] \in S
    THEN CHOOSE i \in 1..Len(s) : s[i] \in S /\ \A j \in 1..(i - 1) : s[j] \notin S
    ELSE 0

(***************************************************************************)
(* Numbers.  A parsed number is [kind, mant, exp]: kind "int" with value   *)
(* mant; kind "float" with value mant * 10^(-exp), mant not a multiple of  *)
(* ten unless it is 0; kind "nan" and "inf" (sign in mant) for the special *)
(* floats; kind "error" when the conversion raises ValueError.             *)
(***************************************************************************)
ValueError == [kind |-> "error", mant |-> 0, exp |-> 0]

\* an entry field add_coord has not read yet
Unparsed == [kind |-> "unparsed", mant |-> 0, exp |-> 0]

\* int(x) for the texts the guard of add_coord lets through: digits, or "-" and digits
PyInt(x) ==
    IF IsDigit(x) THEN [kind |-> "int", mant |-> DigitsVal(x), exp |-> 0]
    ELSE IF x # <<>> /\ Head(x) = "-" /\ IsDigit(Tail(x))
         THEN [kind |-> "int", mant |-> 0 - DigitsVal(Tail(x)), exp |-> 0]
         ELSE ValueError

\* a float value in normal form
RECURSIVE NormFloat(_, _)
NormFloat(m, e) ==
    IF m = 0 THEN [kind |-> "float", mant |-> 0, exp |-> 0]
    ELSE IF m % 10 = 0 THEN NormFloat(m \div 10, e - 1)
         ELSE [kind |-> "float", mant |-> m, exp |-> e]

\* float(): "_" is accepted only between two digits, and is then dropped
UnderscoresOk(s) ==
    \A i \in 1..Len(s) :
        s[i] = "_" => /\ i > 1 /\ s[i - 1] \in Digits
                      /\ i < Len(s) /\ s[i + 1] \in Digits

DropUnderscores(s) == SelectSeq(s, LAMBDA c : c # "_")

\* float(): the exponent after "e": an optional sign and at least one digit
ExponentOk(s) ==
    IF s # <<>> /\ Head(s) \in {"+", "-"} THEN IsDigit(Tail(s)) ELSE IsDigit(s)

ExponentVal(s) ==
    IF Head(s) = "-" THEN 0 - DigitsVal(Tail(s))
    ELSE IF Head(s) = "+" THEN DigitsVal(Tail(s)) ELSE DigitsVal(s)

\* float(): digits with at most one ".", at least one digit, then an optional exponent
PyDecimal(sign, s) ==
    LET e     == FirstIdx(s, {"e", "E"})
        m     == IF e = 0 THEN s ELSE SubSeq(s, 1, e - 1)
        x     == IF e = 0 THEN <<>> ELSE SubSeq(s, e + 1, Len(s))
        d     == FirstIdx(m, {"."})
        ip    == IF d = 0 THEN m ELSE SubSeq(m, 1, d - 1)
        fp    == IF d = 0 THEN <<>> ELSE SubSeq(m, d + 1, Len(m))
        allDigits(t) == \A i \in 1..Len(t) : t[i] \in Digits
    IN  IF /\ allDigits(ip) /\ allDigits(fp) /\ Len(ip) + Len(fp) > 0
           /\ (e # 0 => ExponentOk(x))
        THEN NormFloat(sign * DigitsVal(ip \o fp),
                       Len(fp) - (IF e = 0 THEN 0 ELSE ExponentVal(x)))
        ELSE ValueError

\* float(x): surrounding whitespace ignored, an optional sign, then "nan", "inf",
\* "infinity" in any case, or a decimal literal
PyFloat(x) ==
    LET s    == Strip(x)
        u    == IF UnderscoresOk(s) THEN DropUnderscores(s) ELSE <<"_">>
        neg  == u # <<>> /\ Head(u) = "-"
        body == IF u # <<>> /\ Head(u) \in {"+", "-"} THEN Tail(u) ELSE u
        sign == IF neg THEN 0 - 1 ELSE 1
    IN  IF Lower(body) = <<"n", "a", "n">> THEN [kind |-> "nan", mant |-> 0, exp |-> 0]
        ELSE IF Lower(body) \in {<<"i", "n", "f">>,
                                 <<"i", "n", "f", "i", "n", "i", "t", "y">>}
             THEN [kind |-> "inf", mant |-> sign, exp |-> 0]
             ELSE PyDecimal(sign, body)

\* add_coord: int(x) if x.isdigit() or (x.startswith("-") and x[1:].isdigit()) else float(x)
ParseNumber(x) ==
    IF IsDigit(x) \/ (x # <<>> /\ Head(x) = "-" /\ IsDigit(Tail(x)))
    THEN PyInt(x)
    ELSE PyFloat(x)

(***************************************************************************)
(* JSON documents and the data file.  A document is [kind, value]: kind    *)
(* "object" with the mapping as value, "array" for any other JSON value,   *)
(* "garbage" for text json.load rejects, "absent" for a missing file.      *)
(***************************************************************************)
JsonDump(d) == [kind |-> "object", value |-> d]

NoDocument(k) == [kind |-> k, value |-> <<>>]

\* load_data: the mapping of the file, {} when it is missing, unreadable or no object
load_data(f) == IF f.kind = "object" THEN f.value ELSE <<>>

\* save_data that opens the file and writes nothing to it
save_data_skipped(d, f) == f

\* save_data: the file after the call.  The write is taken to succeed: a failed
\* one is reported in a message box and changes nothing in the program
save_data(d, f) == JsonDump(d)

(***************************************************************************)
(* The Dataset.                                                            *)
(***************************************************************************)
NewProfile == [seed |-> <<>>, coords |-> <<>>]

\* self.data[name] = {"seed": "", "coords": []}
CreateProfile(d, name) ==
    [n \in DOMAIN d \cup {name} |-> IF n = name THEN NewProfile ELSE d[n]]

\* del self.data[sel]
RemoveProfile(d, name) == [n \in DOMAIN d \ {name} |-> d[n]]

\* self.data[profile]["seed"] = ...
SetSeed(d, name, seed) == [d EXCEPT ![name].seed = seed]

\* coords.insert(0, coord) in place of append
InsertCoordFirst(d, name, coord) == [d EXCEPT ![name].coords = <<coord>> \o @]

\* self.data[profile]["coords"].append(coord)
AppendCoord(d, name, coord) == [d EXCEPT ![name].coords = Append(@, coord)]

\* coords.pop() in place of coords.pop(idx)
PopLastCoord(d, name, idx) ==
    [d EXCEPT ![name].coords = SubSeq(@, 1, Len(@) - 1)]

\* coords.pop(idx), idx counted from 0
PopCoord(d, name, idx) ==
    [d EXCEPT ![name].coords =
        SubSeq(@, 1, idx) \o SubSeq(@, idx + 2, Len(@))]

\* a merge in which the existing profile wins
UpdateMissingOnly(d, nd) ==
    [n \in DOMAIN d \cup DOMAIN nd |-> IF n \in DOMAIN d THEN d[n] ELSE nd[n]]

\* self.data.update(newdata)
Update(d, nd) ==
    [n \in DOMAIN d \cup DOMAIN nd |-> IF n \in DOMAIN nd THEN nd[n] ELSE d[n]]

\* the number of coordinates in all profiles
RECURSIVE SumCoords(_, _)
SumCoords(d, names) ==
    IF names = {} THEN 0
    ELSE LET n == CHOOSE n \in names : TRUE
         IN  Len(d[n].coords) + SumCoords(d, names \ {n})

TotalCoords(d) == SumCoords(d, DOMAIN d)

\* a check that lets every name through
NameNeverMissing(name) == FALSE

\* python truth of a str: "if not name"
NameMissing(name) == name = <<>>

(***************************************************************************)
(* The widgets.                                                            *)
(***************************************************************************)
Ord(c) ==
    CASE c = " " -> 32 [] c = "B" -> 66 [] c = "H" -> 72 [] c = "P" -> 80
      [] c = "Q" -> 81 [] c = "b" -> 98 [] c = "h" -> 104 [] c = "p" -> 112
      [] c = "q" -> 113 [] c = "s" -> 115 [] OTHER -> 63

\* str < str
RECURSIVE StrLess(_, _)
StrLess(a, b) ==
    IF b = <<>> THEN FALSE
    ELSE IF a = <<>> THEN TRUE
    ELSE IF Ord(Head(a)) # Ord(Head(b)) THEN Ord(Head(a)) < Ord(Head(b))
    ELSE StrLess(Tail(a), Tail(b))

\* sorted(keys, key=lambda s: s.lower()); names equal but for case keep the order
\* of the dict, which is taken here to be the order of the names themselves
RECURSIVE SortedKeys(_)
SortedKeys(S) ==
    IF S = {} THEN <<>>
    ELSE LET first == CHOOSE m \in S : \A o \in S \ {m} :
                          \/ StrLess(Lower(m), Lower(o))
                          \/ Lower(m) = Lower(o) /\ StrLess(m, o)
         IN  <<first>> \o SortedKeys(S \ {first})

\* _refresh_profile_listbox: the items after the refresh (no item is selected then)
_refresh_profile_listbox(d) == SortedKeys(DOMAIN d)

\* list(sorted(...)).index(name), counted from 0
IndexOf(lb, name) == (CHOOSE i \in 1..Len(lb) : lb[i] = name) - 1

\* _get_selected_profile_name: <<>> for None, else <<name>>
_get_selected_profile_name(lb, cs) == IF cs = <<>> THEN <<>> ELSE <<lb[cs[1] + 1]>>

\* python truth of the result: neither None nor ""
Truthy(p) == p # <<>> /\ ~NameMissing(p[1])

\* _refresh_coords_tree: one row per coordinate, its iid the position as text
_refresh_coords_tree(d, name) ==
    LET coords == IF name \in DOMAIN d THEN d[name].coords ELSE <<>>
    IN  [i \in 1..Len(coords) |->
            [iid |-> NatToStr(i - 1),
             values |-> <<coords[i].name, coords[i].x, coords[i].y, coords[i].z>>]]

\* on_profile_select: the rows shown afterwards
ProfileSelectTree(d, lb, cs) ==
    LET profile == _get_selected_profile_name(lb, cs)
    IN  IF ~Truthy(profile) THEN <<>> ELSE _refresh_coords_tree(d, profile[1])

(***************************************************************************)
(* What the user can enter.                                                *)
(***************************************************************************)
IntVal(n) == [kind |-> "int", mant |-> n, exp |-> 0]

\* askstring: <<>> when the dialog is cancelled, else <<text>>
ProfileNameInputs ==
    { <<>>, << <<>> >>, << <<" ">> >>, << <<"p">> >>, << <<" ", "p", " ">> >> }

\* the seed entry
SeedInputs == { <<>>, <<" ", "s", " ">> }

\* the entries name, X, Y, Z
CoordInputs ==
    { << <<"H">>, <<"1", "0", "0">>, <<"6", "4">>, <<"-", "2", "0", "0">> >>,
      << <<" ", "B", " ">>, <<"1", ".", "5">>, <<"6", "4">>, <<"2", "0", "0">> >>,
      << <<>>, <<"1">>, <<"2">>, <<"3">> >>,
      << <<" ">>, <<"1">>, <<"2">>, <<"3">> >>,
      << <<"H">>, <<"a", "b", "c">>, <<"0">>, <<"0">> >>,
      << <<"H">>, <<"1">>, <<>>, <<"3">> >> }

\* the files offered to import_json: objects whose profiles have the documented
\* shape (one holds a coordinate with an empty name), a JSON array, and text
\* that is no JSON
ImportDocs ==
    { JsonDump(<<>>),
      JsonDump([n \in { <<"p">> } |->
                  [seed |-> <<"s">>,
                   coords |-> << [name |-> <<>>, x |-> IntVal(0),
                                  y |-> IntVal(0), z |-> IntVal(0)] >>]]),
      JsonDump([n \in { <<"Q">> } |-> NewProfile]),
      NoDocument("array"),
      NoDocument("garbage") }

\* cords-data.json when the program starts
InitFiles ==
    { NoDocument("absent"),
      NoDocument("array"),
      JsonDump([n \in { <<"p">> } |->
                  [seed |-> <<>>,
                   coords |-> << [name |-> <<"H">>, x |-> IntVal(100),
                                  y |-> IntVal(64), z |-> IntVal(0 - 200)] >>]]) }

AllChars == {"1", "-", ".", "n", "a", " "}

RECURSIVE TextsUpTo(_)
TextsUpTo(n) ==
    IF n = 0 THEN { <<>> }
    ELSE LET shorter == TextsUpTo(n - 1)
         IN  shorter \cup { Append(t, c) : t \in shorter, c \in AllChars }

(***************************************************************************)
(* Construction: CoordManagerApp.__init__                                  *)
(***************************************************************************)
Ended(n, o, a, g) ==
    op' = [name |-> n, outcome |-> o, answer |-> a, arg |-> g]

Init ==
    /\ file \in InitFiles
    /\ data = load_data(file)
    /\ listbox = _refresh_profile_listbox(data)
    /\ cursel = IF Len(listbox) > 0 THEN <<0>> ELSE <<>>
    /\ tree = ProfileSelectTree(data, listbox, cursel)
    /\ treesel = <<>>
    /\ op = [name |-> "__init__", outcome |-> "ok", answer |-> "n/a",
             arg |-> <<>>]
    /\ saved = <<>>
    /\ text = <<>>
    /\ parsed = Unparsed

(***************************************************************************)
(* Profiles.                                                               *)
(***************************************************************************)
add_profile ==
    \E input \in ProfileNameInputs :
        /\ UNCHANGED <<text, parsed>>
        /\ IF input = <<>> \/ NameMissing(input[1])
           THEN /\ Ended("add_profile", "returned", "n/a", input)
                /\ saved' = <<>>
                /\ UNCHANGED <<data, file, listbox, cursel, tree, treesel>>
           ELSE LET name == Strip(input[1])
                IN  IF name \in DOMAIN data
                    THEN /\ Ended("add_profile", "DuplicateName", "n/a", input)
                         /\ saved' = <<>>
                         /\ UNCHANGED <<data, file, listbox, cursel, tree, treesel>>
                    ELSE /\ data' = CreateProfile(data, name)
                         /\ saved' = <<JsonDump(data')>>
                         /\ file' = save_data(data', file)
                         /\ listbox' = _refresh_profile_listbox(data')
                         /\ cursel' = <<IndexOf(listbox', name)>>
                         /\ tree' = ProfileSelectTree(data', listbox', cursel')
                         /\ treesel' = <<>>
                         /\ Ended("add_profile", "ok", "n/a", input)

delete_profile ==
    LET sel == _get_selected_profile_name(listbox, cursel)
    IN  /\ UNCHANGED <<text, parsed>>
        /\ IF ~Truthy(sel)
           THEN /\ Ended("delete_profile", "NoSelection", "n/a", <<>>)
                /\ saved' = <<>>
                /\ UNCHANGED <<data, file, listbox, cursel, tree, treesel>>
           ELSE \/ /\ Ended("delete_profile", "declined", "no", <<>>)
                   /\ saved' = <<>>
                   /\ UNCHANGED <<data, file, listbox, cursel, tree, treesel>>
                \/ /\ data' = RemoveProfile(data, sel[1])
                   /\ saved' = <<JsonDump(data')>>
                   /\ file' = save_data(data', file)
                   /\ listbox' = _refresh_profile_listbox(data')
                   /\ cursel' = <<>>
                   /\ tree' = <<>>
                   /\ treesel' = <<>>
                   /\ Ended("delete_profile", "ok", "yes", <<>>)

\* a click on item i of the profile Listbox, then on_profile_select
on_profile_select ==
    \E i \in 1..Len(listbox) :
        /\ cursel' = <<i - 1>>
        /\ tree' = ProfileSelectTree(data, listbox, cursel')
        /\ treesel' = <<>>
        /\ saved' = <<>>
        /\ Ended("on_profile_select", "ok", "n/a", <<>>)
        /\ UNCHANGED <<data, file, listbox, text, parsed>>

save_seed ==
    \E seed \in SeedInputs :
        LET profile == _get_selected_profile_name(listbox, cursel)
        IN  /\ UNCHANGED <<listbox, cursel, tree, treesel, text, parsed>>
            /\ IF ~Truthy(profile)
               THEN /\ Ended("save_seed", "NoSelection", "n/a", <<>>)
                    /\ saved' = <<>>
                    /\ UNCHANGED <<data, file>>
               ELSE /\ data' = SetSeed(data, profile[1], Strip(seed))
                    /\ saved' = <<JsonDump(data')>>
                    /\ file' = save_data(data', file)
                    /\ Ended("save_seed", "ok", "n/a", <<>>)

(***************************************************************************)
(* Coordinates.                                                            *)
(***************************************************************************)
\* self.data[profile]["coords"][idx] with profile from _get_selected_profile_name
Lookup(d, profile, idx) ==
    IF profile = <<>> \/ profile[1] \notin DOMAIN d THEN "KeyError"
    ELSE IF idx >= Len(d[profile[1]].coords) THEN "IndexError"
    ELSE "ok"

add_coord ==
    \E input \in CoordInputs :
        LET profile == _get_selected_profile_name(listbox, cursel)
            name    == Strip(input[1])
            x_val   == ParseNumber(Strip(input[2]))
            y_val   == ParseNumber(Strip(input[3]))
            z_val   == ParseNumber(Strip(input[4]))
            coord   == [name |-> name, x |-> x_val, y |-> y_val, z |-> z_val]
        IN  /\ UNCHANGED <<listbox, cursel, text, parsed>>
            /\ IF ~Truthy(profile)
               THEN /\ Ended("add_coord", "NoSelection", "n/a", input)
                    /\ saved' = <<>>
                    /\ UNCHANGED <<data, file, tree, treesel>>
               ELSE IF NameMissing(name)
               THEN /\ Ended("add_coord", "EmptyName", "n/a", input)
                    /\ saved' = <<>>
                    /\ UNCHANGED <<data, file, tree, treesel>>
               ELSE IF "error" \in {x_val.kind, y_val.kind, z_val.kind}
               THEN /\ Ended("add_coord", "InvalidNumber", "n/a", input)
                    /\ saved' = <<>>
                    /\ UNCHANGED <<data, file, tree, treesel>>
               ELSE /\ TotalCoords(data) < MaxCoords
                    /\ data' = AppendCoord(data, profile[1], coord)
                    /\ saved' = <<JsonDump(data')>>
                    /\ file' = save_data(data', file)
                    /\ tree' = _refresh_coords_tree(data', profile[1])
                    /\ treesel' = <<>>
                    /\ Ended("add_coord", "ok", "n/a", input)

\* a click on row i of the coordinates Treeview (selectmode "browse")
coords_tree_select ==
    \E i \in 1..Len(tree) :
        /\ treesel' = <<tree[i].iid>>
        /\ saved' = <<>>
        /\ Ended("coords_tree_select", "ok", "n/a", <<>>)
        /\ UNCHANGED <<data, file, listbox, cursel, tree, text, parsed>>

delete_selected_coord ==
    LET profile == _get_selected_profile_name(listbox, cursel)
        idx     == StrToNat(treesel[1])
    IN  /\ UNCHANGED <<listbox, cursel, text, parsed>>
        /\ IF ~Truthy(profile)
           THEN /\ Ended("delete_selected_coord", "returned", "n/a", <<>>)
                /\ saved' = <<>>
                /\ UNCHANGED <<data, file, tree, treesel>>
           ELSE IF treesel = <<>>
           THEN /\ Ended("delete_selected_coord", "NoRowSelected", "n/a", <<>>)
                /\ saved' = <<>>
                /\ UNCHANGED <<data, file, tree, treesel>>
           ELSE IF profile[1] \notin DOMAIN data
           THEN /\ Ended("delete_selected_coord", "KeyError", "n/a", <<>>)
                /\ saved' = <<>>
                /\ UNCHANGED <<data, file, tree, treesel>>
           ELSE IF idx < 0 \/ idx >= Len(data[profile[1]].coords)
           THEN /\ Ended("delete_selected_coord", "IndexOutOfRange", "n/a", <<>>)
                /\ saved' = <<>>
                /\ UNCHANGED <<data, file, tree, treesel>>
           ELSE \/ /\ Ended("delete_selected_coord", "declined", "no", <<>>)
                   /\ saved' = <<>>
                   /\ UNCHANGED <<data, file, tree, treesel>>
                \/ /\ data' = PopCoord(data, profile[1], idx)
                   /\ saved' = <<JsonDump(data')>>
                   /\ file' = save_data(data', file)
                   /\ tree' = _refresh_coords_tree(data', profile[1])
                   /\ treesel' = <<>>
                   /\ Ended("delete_selected_coord", "ok", "yes", <<>>)

\* the entry fields it fills are what the user types over before the next click
edit_selected_coord ==
    LET profile == _get_selected_profile_name(listbox, cursel)
    IN  /\ saved' = <<>>
        /\ UNCHANGED <<data, file, listbox, cursel, tree, treesel, text, parsed>>
        /\ IF ~Truthy(profile) \/ treesel = <<>>
           THEN Ended("edit_selected_coord", "returned", "n/a", <<>>)
           ELSE IF Lookup(data, profile, StrToNat(treesel[1])) # "ok"
           THEN Ended("edit_selected_coord",
                      Lookup(data, profile, StrToNat(treesel[1])), "n/a", <<>>)
           ELSE \E answer \in {"yes", "no"} :
                Ended("edit_selected_coord", "ok", answer, <<>>)

\* copy_selected_coords_text and print_selected_coord differ in where the text goes
ReadSelectedCoord(handler) ==
    LET profile == _get_selected_profile_name(listbox, cursel)
    IN  /\ saved' = <<>>
        /\ UNCHANGED <<data, file, listbox, cursel, tree, treesel, text, parsed>>
        /\ IF treesel = <<>>
           THEN Ended(handler, "NoRowSelected", "n/a", <<>>)
           ELSE Ended(handler, Lookup(data, profile, StrToNat(treesel[1])),
                      "n/a", <<>>)

copy_selected_coords_text == ReadSelectedCoord("copy_selected_coords_text")

print_selected_coord == ReadSelectedCoord("print_selected_coord")

(***************************************************************************)
(* Import, export and Control-s.                                           *)
(***************************************************************************)
import_json ==
    \E choice \in { <<>> } \cup { <<doc>> : doc \in ImportDocs } :
        /\ UNCHANGED <<tree, treesel, text, parsed>>
        /\ IF choice = <<>>
           THEN /\ Ended("import_json", "returned", "n/a", choice)
                /\ saved' = <<>>
                /\ UNCHANGED <<data, file, listbox, cursel>>
           ELSE IF choice[1].kind = "garbage"
           THEN /\ Ended("import_json", "ImportError", "n/a", choice)
                /\ saved' = <<>>
                /\ UNCHANGED <<data, file, listbox, cursel>>
           ELSE IF choice[1].kind # "object"
           THEN /\ Ended("import_json", "InvalidDocument", "n/a", choice)
                /\ saved' = <<>>
                /\ UNCHANGED <<data, file, listbox, cursel>>
           ELSE \E answer \in {"yes", "no", "n/a"} :
                /\ answer = "n/a" <=> DOMAIN data = {}
                /\ data' = IF answer = "yes" THEN Update(data, choice[1].value)
                           ELSE choice[1].value
                /\ saved' = <<JsonDump(data')>>
                /\ file' = save_data(data', file)
                /\ listbox' = _refresh_profile_listbox(data')
                /\ cursel' = <<>>
                /\ Ended("import_json", "ok", answer, choice)

\* the exported file is not the data file
export_json ==
    \E outcome \in {"returned", "ok", "ExportError"} :
        /\ Ended("export_json", outcome, "n/a", <<>>)
        /\ saved' = <<>>
        /\ UNCHANGED <<data, file, listbox, cursel, tree, treesel, text, parsed>>

\* <Control-s>: save_data(self.data, self.data_path)
manual_save ==
    /\ saved' = <<JsonDump(data)>>
        /\ file' = save_data(data, file)
        /\ Ended("manual_save", "ok", "n/a", <<>>)
        /\ UNCHANGED <<data, listbox, cursel, tree, treesel, text, parsed>>

Next ==
    \/ add_profile
    \/ delete_profile
    \/ on_profile_select
    \/ save_seed
    \/ add_coord
    \/ coords_tree_select
    \/ delete_selected_coord
    \/ edit_selected_coord
    \/ copy_selected_coords_text
    \/ print_selected_coord
    \/ import_json
    \/ export_json
    \/ manual_save

Spec == Init /\ [][Next]_vars

(***************************************************************************)
(* The number parse of add_coord on its own: any text of up to MaxLen      *)
(* characters in an entry field, read as add_coord reads X, Y and Z.       *)
(***************************************************************************)
InitParse ==
    /\ file = NoDocument("absent")
    /\ data = load_data(file)
    /\ listbox = _refresh_profile_listbox(data)
    /\ cursel = <<>>
    /\ tree = <<>>
    /\ treesel = <<>>
    /\ op = [name |-> "__init__", outcome |-> "ok", answer |-> "n/a", arg |-> <<>>]
    /\ saved = <<>>
    /\ text \in TextsUpTo(MaxLen)
    /\ parsed = Unparsed

\* self.coord_x_var.get().strip(), then the conversion
parse_field ==
    /\ parsed = Unparsed
    /\ parsed' = ParseNumber(Strip(text))
    /\ UNCHANGED <<data, file, listbox, cursel, tree, treesel, op, saved, text>>

\* the user types another text
type_text ==
    /\ parsed # Unparsed
    /\ text' \in TextsUpTo(MaxLen)
    /\ parsed' = Unparsed
    /\ UNCHANGED <<data, file, listbox, cursel, tree, treesel, op, saved>>

NextParse ==
    \/ parse_field
    \/ type_text

SpecParse == InitParse /\ [][NextParse]_vars

(***************************************************************************)
(* Properties.                                                             *)
(***************************************************************************)
SelectedProfile == _get_selected_profile_name(listbox, cursel)

SelectedIndex == StrToNat(treesel[1])

NamesNonEmpty(d) ==
    \A n \in DOMAIN d : \A i \in 1..Len(d[n].coords) : d[n].coords[i].name # <<>>

\* d2 is d with nothing but profile n changed
OnlyProfileChanged(d, d2, n) ==
    /\ DOMAIN d2 = DOMAIN d
    /\ \A m \in DOMAIN d \ {n} : d2[m] = d[m]

\* C1: starting without an empty-named profile, no createProfile call, whitespace-only
\* input included, ever produces a profile whose name is the empty string.
C1_NoEmptyProfileName == <<>> \notin DOMAIN data

\* C2: every step that ends a mutating operation successfully, and every step that
\* changes the Dataset at all, makes exactly one save_data call whose document is the
\* Dataset as the step leaves it, and that document is then the file; a mutating
\* operation that fails or is declined saves nothing and changes neither.
MutatingOps ==
    {"add_profile", "delete_profile", "save_seed", "add_coord",
     "delete_selected_coord", "import_json"}

C3_AllNamesNonEmpty == NamesNonEmpty(data)

\* C3 amended: a step leaves every coordinate name non-empty if every name was
\* non-empty before it and it is not an import of a document that itself holds a
\* coordinate with an empty name.
C3_NamesNonEmptyButForImport ==
    [][ /\ NamesNonEmpty(data)
        /\ (op'.name = "import_json" /\ op'.outcome = "ok"
              => NamesNonEmpty(op'.arg[1].value))
        => NamesNonEmpty(data') ]_vars

C3_Witness ==
    /\ op.name = "add_coord" /\ op.outcome = "EmptyName"
    /\ op.arg[1] # <<>>
    /\ TotalCoords(data) > 0
    /\ NamesNonEmpty(data)

\* C4: the parse of an entry text (surrounding whitespace aside) gives an integral
\* value exactly for an optional minus sign and one or more digits, a fractional value
\* for decimal text, and fails for empty and for every other text.
IntegerText(t) ==
    \/ IsDigit(t)
    \/ t # <<>> /\ Head(t) = "-" /\ IsDigit(Tail(t))

DecimalText(t) ==
    LET body == IF t # <<>> /\ Head(t) \in {"+", "-"} THEN Tail(t) ELSE t
    IN  /\ \A i \in 1..Len(body) : body[i] \in Digits \cup {"."}
        /\ Cardinality({i \in 1..Len(body) : body[i] = "."}) = 1
        /\ \E i \in 1..Len(body) : body[i] \in Digits

C4_ParseAcceptsOnlyNumbers ==
    parsed # Unparsed =>
        LET t == Strip(text)
        IN  /\ parsed.kind = "int" <=> IntegerText(t)
            /\ DecimalText(t) => parsed.kind = "float"
            /\ ~IntegerText(t) /\ ~DecimalText(t) => parsed.kind = "error"

\* C5: a successful add_coord leaves the Dataset as it was but for the selected
\* profile's list, which is the old list with one coordinate, named by the trimmed
\* name entry, appended at the end; a failing add_coord changes neither Dataset nor file.
C5_AddCoordinateFrame ==
    [][ op'.name = "add_coord" =>
          IF op'.outcome = "ok"
          THEN LET n    == SelectedProfile[1]
                   old  == data[n].coords
                   new  == data'[n].coords
               IN  /\ Truthy(SelectedProfile)
                   /\ OnlyProfileChanged(data, data', n)
                   /\ data'[n].seed = data[n].seed
                   /\ Len(new) = Len(old) + 1
                   /\ \A i \in 1..Len(old) : new[i] = old[i]
                   /\ new[Len(new)].name = Strip(op'.arg[1])
                   /\ new[Len(new)].x = ParseNumber(Strip(op'.arg[2]))
                   /\ new[Len(new)].y = ParseNumber(Strip(op'.arg[3]))
                   /\ new[Len(new)].z = ParseNumber(Strip(op'.arg[4]))
          ELSE /\ op'.outcome \in {"EmptyName", "InvalidNumber", "NoSelection"}
               /\ data' = data
               /\ file' = file ]_vars

C5_Witness ==
    /\ op.name = "add_coord" /\ op.outcome = "ok"
    /\ Truthy(SelectedProfile)
    /\ Len(data[SelectedProfile[1]].coords) = 2
    /\ data[SelectedProfile[1]].coords[1] # data[SelectedProfile[1]].coords[2]
    /\ data[SelectedProfile[1]].seed # <<>>
    /\ Cardinality(DOMAIN data) > 1

C7_ImportDocument ==
    [][ op'.name = "import_json" /\ op'.arg # <<>> =>
          LET doc == op'.arg[1]
          IN  IF doc.kind = "object"
              THEN /\ op'.outcome = "ok"
                   /\ IF op'.answer = "yes"
                      THEN /\ DOMAIN data' = DOMAIN data \cup DOMAIN doc.value
                           /\ \A n \in DOMAIN doc.value : data'[n] = doc.value[n]
                           /\ \A n \in DOMAIN data \ DOMAIN doc.value : data'[n] = data[n]
                      ELSE data' = doc.value
              ELSE /\ op'.outcome \in {"InvalidDocument", "ImportError"}
                   /\ doc.kind = "array" => op'.outcome = "InvalidDocument"
                   /\ data' = data
                   /\ file' = file ]_vars

C7_Witness ==
    /\ op.name = "import_json" /\ op.outcome = "ok" /\ op.answer = "yes"
    /\ DOMAIN op.arg[1].value # {}
    /\ DOMAIN data # DOMAIN op.arg[1].value
    /\ \E n \in DOMAIN op.arg[1].value : data[n].coords # <<>>

\* C8: no user action ends in an unhandled error such as a lookup of a profile or of
\* a coordinate index that is not in the Dataset.
C8_NoUnhandledError == op.outcome \notin {"KeyError", "IndexError"}

\* C9: a step that removes a profile, or removes or replaces coordinates of an
\* existing profile, is one in which the user answered yes to a confirmation; a step
\* in which the user answered no changes neither Dataset nor file.
IsPrefix(a, b) == Len(a) <= Len(b) /\ SubSeq(b, 1, Len(a)) = a

Destroys(d, d2) ==
    \E n \in DOMAIN d : n \notin DOMAIN d2 \/ ~IsPrefix(d[n].coords, d2[n].coords)

C9_DestructionConfirmed ==
    [][ /\ Destroys(data, data') => op'.answer = "yes"
        /\ op'.answer = "no" => data' = data /\ file' = file ]_vars

\* C10: after every user action the profile list shows exactly the keys of the
\* Dataset, the rows shown are the positions of the selected profile's list (none
\* when no profile is selected), and a selected row id is a position of that list.
C10_ViewConsistent ==
    /\ listbox = _refresh_profile_listbox(data)
    /\ tree = IF SelectedProfile = <<>> THEN <<>>
              ELSE _refresh_coords_tree(data, SelectedProfile[1])
    /\ treesel # <<>> =>
          /\ SelectedProfile # <<>>
          /\ SelectedIndex < Len(data[SelectedProfile[1]].coords)

====
